---- MODULE Spec2Model ----
(***************************************************************************)
(* Event registration, attendance and QR check-in of the mosque event API. *)
(*                                                                         *)
(* The store is four tables (events, registrations, attendances, qrcodes). *)
(* Every service method is a chain of awaits; each await is one atomic     *)
(* store access, so a method is modelled as one action per await, run by a *)
(* request worker p.  Under Spec the workers interleave freely and the     *)
(* clock advances between any two awaits (concurrent = TRUE); under        *)
(* SpecSeq one worker serves one request after the other and the clock     *)
(* stands still while a request is served (concurrent = FALSE).            *)
(*                                                                         *)
(* An optional column (maxAttendees, registrationDeadline, checkInTime,    *)
(* checkOutTime) is a set: {} for null, {v} for the value v.  A lookup     *)
(* (findUnique, findFirst) returns a set of rows: {} for null.             *)
(*                                                                         *)
(* Invitation-based onboarding (tables Invitation and User) is explored on *)
(* its own, under SpecInvite, with the event tables empty.                 *)
(***************************************************************************)
EXTENDS Integers, Sequences, FiniteSets, TLC

\* ------------------------------------------------------------------ bounds
MaxTime == 3
MaxQR == 2
MaxCalls == 3
MaxInvitations == 2

\* ------------------------------------------------------------ the universe
Procs == {"p1", "p2"}
Users == {"A", "B"}
EventIds == {"e1", "e2"}

\* The one event row of the store.  "e2" is an id with no row.  A deadline
\* before the start comes with every kind of event, a deadline at the start
\* with an active event that requires registration.
EventConfigs ==
  {c \in [ id : {"e1"},
           isActive : BOOLEAN,
           registrationRequired : BOOLEAN,
           startDate : {1},
           endDate : {2},
           registrationDeadline : {{}, {0}, {1}},
           maxAttendees : {{}, {1}},
           currentAttendees : {0} ] :
     c.registrationDeadline = {c.startDate} => c.isActive /\ c.registrationRequired}

\* The (event id, user) pairs of the requests sent: the user does not matter
\* for an event that does not exist.
Targets == {<< "e1", "A" >>, << "e1", "B" >>, << "e2", "A" >>}

ExpirationHours == {1}

VARIABLES
  concurrent,     \* whether requests overlap (Spec) or follow one another (SpecSeq)
  now,            \* the clock read by new Date() / Date.now()
  events,         \* table Event
  registrations,  \* table EventRegistration, unique on (eventId, userId)
  attendances,    \* table Attendance, unique on (eventId, userId)
  qrcodes,        \* table QRCode, in creation order
  pc,             \* where each request worker stands
  call,           \* the request each worker serves
  evSnap,         \* the `event` local of the method a worker runs
  attSnap,        \* the `existingAttendance` local
  autoReg,        \* whether this call committed an auto-registration
  secureToken,    \* the `secureToken` local of generateEventQR
  qrSnap,         \* the `qrCode` local of revokeQRCode
  result,         \* what the call returned: "ok" or the error thrown
  served,         \* how many requests have been accepted
  history,        \* results of the completed calls, while they follow Scenario
  invitations,    \* table Invitation, unique on id and on token
  accounts,       \* table User, unique on email and on phone
  nextInvitation, \* the id the next Invitation row gets
  inviteCall,     \* the invitation request each worker serves
  inviteSnap      \* the `invitation` and `otp` locals of its method

vars == << concurrent, now, events, registrations, attendances, qrcodes,
           pc, call, evSnap, attSnap, autoReg, secureToken, qrSnap, result, served,
           history, invitations, accounts, nextInvitation, inviteCall, inviteSnap >>

store == << events, registrations, attendances, qrcodes >>

\* What the invitation requests work on; the event requests leave it alone.
inviteVars == << invitations, accounts, nextInvitation, inviteCall, inviteSnap >>

\* What the event requests work on, but for the clock, pc, result and served.
eventVars == << store, call, evSnap, attSnap, autoReg, secureToken, qrSnap, history >>

\* ---------------------------------------------------------------- helpers
NoToken == << >>
NoCall ==
  [op |-> "none", eventId |-> "e1", userId |-> "A", token |-> NoToken, hours |-> 0]

\* No invitation request, and its locals before anything is assigned.
NoInvite == [op |-> "none", email |-> {}, phone |-> {}, token |-> NoToken]
NoLocals == [invitation |-> {}, otp |-> NoToken]

FindEvent(id) == {e \in events : e.id = id}

FindRegistration(eventId, userId) ==
  {r \in registrations : r.eventId = eventId /\ r.userId = userId}

FindAttendance(eventId, userId) ==
  {a \in attendances : a.eventId = eventId /\ a.userId = userId}

\* event.update({ data: { currentAttendees: { increment: d } } })
IncrementAttendees(eventId, d) ==
  {IF e.id = eventId THEN [e EXCEPT !.currentAttendees = @ + d] ELSE e : e \in events}

\* The method returns or throws: the worker holds the outcome for the controller.
Finish(p, r) ==
  /\ pc' = [pc EXCEPT ![p] = "done"]
  /\ result' = [result EXCEPT ![p] = r]
  /\ evSnap' = [evSnap EXCEPT ![p] = {}]
  /\ attSnap' = [attSnap EXCEPT ![p] = {}]

Goto(p, label) ==
  /\ pc' = [pc EXCEPT ![p] = label]
  /\ UNCHANGED result

\* A later await of a method: the request, the mode and the count stay.
Resume(p, label) ==
  /\ pc[p] = label
  /\ UNCHANGED << concurrent, call, served, inviteVars >>

\* The worker that serves every request when requests do not overlap.
Worker == "p1"

\* A request is accepted: MaxCalls of them when requests overlap.
Begin(p, op, eventId, userId, token, hours) ==
  /\ pc[p] = "idle"
  /\ IF concurrent THEN served < MaxCalls ELSE p = Worker
  /\ served' = IF concurrent THEN served + 1 ELSE served
  /\ UNCHANGED << concurrent, inviteVars >>
  /\ call' = [call EXCEPT ![p] =
       [op |-> op, eventId |-> eventId, userId |-> userId, token |-> token,
        hours |-> hours]]

\* ------------------------------------------------------------------- Init
Start ==
  /\ now = 0
  /\ events \in {{c} : c \in EventConfigs}
  /\ registrations = {}
  /\ attendances = {}
  /\ qrcodes = << >>
  /\ pc = [p \in Procs |-> "idle"]
  /\ call = [p \in Procs |-> NoCall]
  /\ evSnap = [p \in Procs |-> {}]
  /\ attSnap = [p \in Procs |-> {}]
  /\ autoReg = [p \in Procs |-> FALSE]
  /\ secureToken = [p \in Procs |-> NoToken]
  /\ qrSnap = [p \in Procs |-> {}]
  /\ result = [p \in Procs |-> "none"]
  /\ served = 0
  /\ history = << >>
  /\ invitations = {}
  /\ accounts = {}
  /\ nextInvitation = 1
  /\ inviteCall = [p \in Procs |-> NoInvite]
  /\ inviteSnap = [p \in Procs |-> NoLocals]

\* Overlapping requests are explored on events without a registration
\* deadline: the deadline checks are those of single requests.
Init ==
  /\ Start
  /\ concurrent = TRUE
  /\ \A e \in events : e.registrationDeadline = {}

InitSeq == Start /\ concurrent = FALSE

\* ------------------------------------------- EventService.registerForEvent
\* Mutant: the start-date check lets a registration in at the very start.
RegisterEventErrorStrictStart(ev, t) ==
  IF ev = {} THEN "EventNotFound"
  ELSE LET e == CHOOSE x \in ev : TRUE IN
    IF ~e.isActive THEN "EventInactive"
    ELSE IF ~e.registrationRequired THEN "RegistrationNotRequired"
    ELSE IF e.startDate < t THEN "EventAlreadyStarted"
    ELSE IF \E d \in e.registrationDeadline : d <= t THEN "DeadlinePassed"
    ELSE "ok"

\* The checks made on the event row, in the order of the code.
RegisterEventError(ev, t) ==
  IF ev = {} THEN "EventNotFound"
  ELSE LET e == CHOOSE x \in ev : TRUE IN
    IF ~e.isActive THEN "EventInactive"
    ELSE IF ~e.registrationRequired THEN "RegistrationNotRequired"
    ELSE IF e.startDate <= t THEN "EventAlreadyStarted"
    ELSE IF \E d \in e.registrationDeadline : d <= t THEN "DeadlinePassed"
    ELSE "ok"

\* Mutant: the capacity check is off by one.
AtCapacityOffByOne(e) == \E m \in e.maxAttendees : m # 0 /\ e.currentAttendees > m

\* event.maxAttendees && event.currentAttendees >= event.maxAttendees
AtCapacity(e) == \E m \in e.maxAttendees : m # 0 /\ e.currentAttendees >= m

\* await prisma.event.findUnique, then the synchronous checks on the row
RegisterReadEvent(p) ==
  \E << eventId, userId >> \in Targets :
    /\ Begin(p, "registerForEvent", eventId, userId, NoToken, 0)
    /\ LET ev == FindEvent(eventId)
           err == RegisterEventError(ev, now) IN
       IF err # "ok"
       THEN Finish(p, err)
       ELSE /\ Goto(p, "reg_find")
            /\ evSnap' = [evSnap EXCEPT ![p] = ev]
            /\ UNCHANGED attSnap
    /\ UNCHANGED << now, store, autoReg, secureToken, qrSnap, history >>

\* await prisma.eventRegistration.findUnique, then the capacity check on the
\* event row read earlier
RegisterFindRegistration(p) ==
  /\ Resume(p, "reg_find")
  /\ LET e == CHOOSE x \in evSnap[p] : TRUE IN
     IF FindRegistration(call[p].eventId, call[p].userId) # {}
     THEN Finish(p, "AlreadyRegistered")
     ELSE IF AtCapacity(e)
     THEN Finish(p, "CapacityExceeded")
     ELSE Goto(p, "reg_tx") /\ UNCHANGED << evSnap, attSnap >>
  /\ UNCHANGED << now, store, autoReg, secureToken, qrSnap, history >>

\* Mutant: the two statements run outside a transaction, the update first, so
\* a create that fails leaves the increment behind.
CreateRegistrationUnbatched(eventId, userId) ==
  IF FindEvent(eventId) = {}
  THEN UNCHANGED << registrations, events >>
  ELSE /\ events' = IncrementAttendees(eventId, 1)
       /\ registrations' =
            IF FindRegistration(eventId, userId) # {} THEN registrations
            ELSE registrations \cup
              {[eventId |-> eventId, userId |-> userId, status |-> "CONFIRMED"]}

\* prisma.$transaction([eventRegistration.create, event.update increment]):
\* the create fails on the unique key, the update on a missing event row, and
\* a failed statement rolls the whole batch back.
CreateRegistrationTx(eventId, userId) ==
  IF FindRegistration(eventId, userId) # {} \/ FindEvent(eventId) = {}
  THEN /\ UNCHANGED << registrations, events >>
  ELSE /\ registrations' = registrations \cup
            {[eventId |-> eventId, userId |-> userId, status |-> "CONFIRMED"]}
       /\ events' = IncrementAttendees(eventId, 1)

RegisterTx(p) ==
  /\ Resume(p, "reg_tx")
  /\ CreateRegistrationTx(call[p].eventId, call[p].userId)
  /\ Finish(p, IF registrations' # registrations THEN "ok" ELSE "DbError")
  /\ UNCHANGED << now, attendances, qrcodes, autoReg, secureToken, qrSnap, history >>

\* ----------------------------------------- EventService.cancelRegistration
\* await prisma.eventRegistration.findUnique
CancelFindRegistration(p) ==
  \E << eventId, userId >> \in Targets :
    /\ Begin(p, "cancelRegistration", eventId, userId, NoToken, 0)
    /\ IF FindRegistration(eventId, userId) = {}
       THEN Finish(p, "RegistrationNotFound")
       ELSE Goto(p, "can_ev") /\ UNCHANGED << evSnap, attSnap >>
    /\ UNCHANGED << now, store, autoReg, secureToken, qrSnap, history >>

\* await prisma.event.findUnique, then the start-date check
CancelReadEvent(p) ==
  /\ Resume(p, "can_ev")
  /\ LET ev == FindEvent(call[p].eventId) IN
     IF ev = {} THEN Finish(p, "EventNotFound")
     ELSE IF \E e \in ev : e.startDate <= now
     THEN Finish(p, "EventAlreadyStarted")
     ELSE Goto(p, "can_tx") /\ UNCHANGED << evSnap, attSnap >>
  /\ UNCHANGED << now, store, autoReg, secureToken, qrSnap, history >>

\* Mutant: the registration is deleted and the counter is left alone.
DeleteRegistrationOnly(eventId, userId) ==
  /\ registrations' = registrations \ FindRegistration(eventId, userId)
  /\ UNCHANGED events

\* Mutant: the two statements run outside a transaction, the update first, so
\* a delete that fails leaves the decrement behind.
DeleteRegistrationUnbatched(eventId, userId) ==
  IF FindEvent(eventId) = {}
  THEN UNCHANGED << registrations, events >>
  ELSE /\ events' = IncrementAttendees(eventId, -1)
       /\ registrations' = registrations \ FindRegistration(eventId, userId)

\* prisma.$transaction([eventRegistration.delete, event.update decrement]):
\* the delete fails when the row is gone, and the batch rolls back.
DeleteRegistrationTx(eventId, userId) ==
  IF FindRegistration(eventId, userId) = {} \/ FindEvent(eventId) = {}
  THEN /\ UNCHANGED << registrations, events >>
  ELSE /\ registrations' = registrations \ FindRegistration(eventId, userId)
       /\ events' = IncrementAttendees(eventId, -1)

CancelTx(p) ==
  /\ Resume(p, "can_tx")
  /\ DeleteRegistrationTx(call[p].eventId, call[p].userId)
  /\ Finish(p, IF registrations' # registrations THEN "ok" ELSE "DbError")
  /\ UNCHANGED << now, attendances, qrcodes, autoReg, secureToken, qrSnap, history >>

\* ---------------------------------------------- the attendance table writes
\* prisma.attendance.update({ data: { checkInTime: new Date(), status } })
UpdateCheckIn(eventId, userId) ==
  {IF a.eventId = eventId /\ a.userId = userId
   THEN [a EXCEPT !.checkInTime = {now}, !.status = "CHECKED_IN"]
   ELSE a : a \in attendances}

\* prisma.attendance.create({ data: { checkInTime: new Date(), status } })
CreateCheckIn(eventId, userId) ==
  attendances \cup
    {[eventId |-> eventId, userId |-> userId, checkInTime |-> {now},
      checkOutTime |-> {}, status |-> "CHECKED_IN"]}

\* Mutant: the table has no unique key, the create always adds its row.
WriteCheckInNoUniqueKey(p, eventId, userId) ==
  IF attSnap[p] # {}
  THEN IF FindAttendance(eventId, userId) = {}
       THEN UNCHANGED attendances /\ Finish(p, "DbError")
       ELSE attendances' = UpdateCheckIn(eventId, userId) /\ Finish(p, "ok")
  ELSE /\ attendances' = attendances \cup
            {[eventId |-> eventId, userId |-> userId, checkInTime |-> {now},
              checkOutTime |-> {}, status |-> "CHECKED_IN"]}
       /\ Finish(p, "ok")

\* Mutant: the write is an upsert, which overwrites the row another request
\* has created since the lookup.
WriteCheckInUpsert(p, eventId, userId) ==
  /\ attendances' = IF FindAttendance(eventId, userId) = {}
                    THEN CreateCheckIn(eventId, userId)
                    ELSE UpdateCheckIn(eventId, userId)
  /\ Finish(p, "ok")

\* if (existingAttendance) update else create.  The update throws when the
\* row is missing, the create when the unique key (eventId, userId) is taken.
WriteCheckIn(p, eventId, userId) ==
  IF attSnap[p] # {}
  THEN IF FindAttendance(eventId, userId) = {}
       THEN UNCHANGED attendances /\ Finish(p, "DbError")
       ELSE attendances' = UpdateCheckIn(eventId, userId) /\ Finish(p, "ok")
  ELSE IF FindAttendance(eventId, userId) # {}
       THEN UNCHANGED attendances /\ Finish(p, "DbError")
       ELSE attendances' = CreateCheckIn(eventId, userId) /\ Finish(p, "ok")

\* Mutant: a record that has been checked out counts as not checked in.
HasCheckedInAndNotOut(att) ==
  \E a \in att : a.checkInTime # {} /\ a.checkOutTime = {}

\* existingAttendance && existingAttendance.checkInTime
HasCheckedIn(att) == \E a \in att : a.checkInTime # {}

\* Mutant: the end of the event is not checked.
CheckInEventErrorNoEnd(ev, t) ==
  IF ev = {} THEN "EventNotFound"
  ELSE LET e == CHOOSE x \in ev : TRUE IN
    IF ~e.isActive THEN "EventInactive"
    ELSE IF e.startDate > t THEN "EventNotStarted"
    ELSE "ok"

\* The checks made on the event row, in the order of the code.
CheckInEventError(ev, t) ==
  IF ev = {} THEN "EventNotFound"
  ELSE LET e == CHOOSE x \in ev : TRUE IN
    IF ~e.isActive THEN "EventInactive"
    ELSE IF e.startDate > t THEN "EventNotStarted"
    ELSE IF e.endDate < t THEN "EventEnded"
    ELSE "ok"

\* ------------------------------------------------ AttendanceService.checkIn
CheckInReadEvent(p) ==
  \E << eventId, userId >> \in Targets :
    /\ Begin(p, "checkIn", eventId, userId, NoToken, 0)
    /\ LET ev == FindEvent(eventId)
           err == CheckInEventError(ev, now) IN
       IF err # "ok"
       THEN Finish(p, err)
       ELSE /\ Goto(p, IF \E e \in ev : e.registrationRequired
                       THEN "ci_reg" ELSE "ci_att")
            /\ evSnap' = [evSnap EXCEPT ![p] = ev]
            /\ UNCHANGED attSnap
    /\ UNCHANGED << now, store, autoReg, secureToken, qrSnap, history >>

CheckInFindRegistration(p) ==
  /\ Resume(p, "ci_reg")
  /\ LET reg == FindRegistration(call[p].eventId, call[p].userId) IN
     IF reg = {} THEN Finish(p, "UserNotRegistered")
     ELSE IF \E r \in reg : r.status # "CONFIRMED"
     THEN Finish(p, "RegistrationNotConfirmed")
     ELSE Goto(p, "ci_att") /\ UNCHANGED << evSnap, attSnap >>
  /\ UNCHANGED << now, store, autoReg, secureToken, qrSnap, history >>

CheckInFindAttendance(p) ==
  /\ Resume(p, "ci_att")
  /\ LET att == FindAttendance(call[p].eventId, call[p].userId) IN
     IF HasCheckedIn(att) THEN Finish(p, "AlreadyCheckedIn")
     ELSE /\ Goto(p, "ci_write")
          /\ attSnap' = [attSnap EXCEPT ![p] = att]
          /\ UNCHANGED evSnap
  /\ UNCHANGED << now, store, autoReg, secureToken, qrSnap, history >>

\* Mutant: a check-in takes a seat.
CheckInWriteCounted(p) ==
  /\ Resume(p, "ci_write")
  /\ WriteCheckIn(p, call[p].eventId, call[p].userId)
  /\ events' = IncrementAttendees(call[p].eventId, 1)
  /\ UNCHANGED << now, registrations, qrcodes, autoReg, secureToken, qrSnap, history >>

\* await prisma.attendance.update or prisma.attendance.create
CheckInWrite(p) ==
  /\ Resume(p, "ci_write")
  /\ WriteCheckIn(p, call[p].eventId, call[p].userId)
  /\ UNCHANGED << now, events, registrations, qrcodes, autoReg,
                  secureToken, qrSnap, history >>

\* --------------------------------------------- EventService.markAttendance
\* Mutant: staff may mark attendance after the end of the event.
MarkEventErrorNoEnd(ev, t) ==
  IF ev = {} THEN "EventNotFound"
  ELSE LET e == CHOOSE x \in ev : TRUE IN
    IF ~e.isActive THEN "EventInactive"
    ELSE IF e.startDate > t THEN "EventNotStarted"
    ELSE "ok"

\* The checks made on the event row, in the order of the code.
MarkEventError(ev, t) ==
  IF ev = {} THEN "EventNotFound"
  ELSE LET e == CHOOSE x \in ev : TRUE IN
    IF ~e.isActive THEN "EventInactive"
    ELSE IF e.startDate > t THEN "EventNotStarted"
    ELSE IF e.endDate < t THEN "EventEnded"
    ELSE "ok"

MarkReadEvent(p) ==
  \E << eventId, userId >> \in Targets :
    /\ Begin(p, "markAttendance", eventId, userId, NoToken, 0)
    /\ LET ev == FindEvent(eventId)
           err == MarkEventError(ev, now) IN
       IF err # "ok"
       THEN Finish(p, err)
       ELSE /\ Goto(p, IF \E e \in ev : e.registrationRequired
                       THEN "ma_reg" ELSE "ma_att")
            /\ evSnap' = [evSnap EXCEPT ![p] = ev]
            /\ UNCHANGED attSnap
    /\ UNCHANGED << now, store, autoReg, secureToken, qrSnap, history >>

MarkFindRegistration(p) ==
  /\ Resume(p, "ma_reg")
  /\ LET reg == FindRegistration(call[p].eventId, call[p].userId) IN
     IF reg = {} THEN Finish(p, "UserNotRegistered")
     ELSE IF \E r \in reg : r.status # "CONFIRMED"
     THEN Finish(p, "RegistrationNotConfirmed")
     ELSE Goto(p, "ma_att") /\ UNCHANGED << evSnap, attSnap >>
  /\ UNCHANGED << now, store, autoReg, secureToken, qrSnap, history >>

MarkFindAttendance(p) ==
  /\ Resume(p, "ma_att")
  /\ LET att == FindAttendance(call[p].eventId, call[p].userId) IN
     IF HasCheckedIn(att) THEN Finish(p, "AlreadyCheckedIn")
     ELSE /\ Goto(p, "ma_write")
          /\ attSnap' = [attSnap EXCEPT ![p] = att]
          /\ UNCHANGED evSnap
  /\ UNCHANGED << now, store, autoReg, secureToken, qrSnap, history >>

MarkWrite(p) ==
  /\ Resume(p, "ma_write")
  /\ WriteCheckIn(p, call[p].eventId, call[p].userId)
  /\ UNCHANGED << now, events, registrations, qrcodes, autoReg,
                  secureToken, qrSnap, history >>

\* ----------------------------------------------- AttendanceService.checkOut
\* Mutant: a missing record is reported as a record without check-in.
CheckOutErrorNoRecord(att) ==
  IF att = {} THEN "NotCheckedIn"
  ELSE IF \E a \in att : a.checkInTime = {} THEN "NotCheckedIn"
  ELSE IF \E a \in att : a.checkOutTime # {} THEN "AlreadyCheckedOut"
  ELSE "ok"

\* The checks on the record found, in the order of the code.
CheckOutError(att) ==
  IF att = {} THEN "AttendanceNotFound"
  ELSE IF \E a \in att : a.checkInTime = {} THEN "NotCheckedIn"
  ELSE IF \E a \in att : a.checkOutTime # {} THEN "AlreadyCheckedOut"
  ELSE "ok"

CheckOutFindAttendance(p) ==
  \E << eventId, userId >> \in Targets :
    /\ Begin(p, "checkOut", eventId, userId, NoToken, 0)
    /\ LET err == CheckOutError(FindAttendance(eventId, userId)) IN
       IF err # "ok" THEN Finish(p, err)
       ELSE Goto(p, "co_write") /\ UNCHANGED << evSnap, attSnap >>
    /\ UNCHANGED << now, store, autoReg, secureToken, qrSnap, history >>

\* prisma.attendance.update({ data: { checkOutTime: new Date(), status } })
UpdateCheckOut(eventId, userId) ==
  {IF a.eventId = eventId /\ a.userId = userId
   THEN [a EXCEPT !.checkOutTime = {now}, !.status = "CHECKED_OUT"]
   ELSE a : a \in attendances}

CheckOutWrite(p) ==
  /\ Resume(p, "co_write")
  /\ attendances' = UpdateCheckOut(call[p].eventId, call[p].userId)
  /\ Finish(p, "ok")
  /\ UNCHANGED << now, events, registrations, qrcodes, autoReg,
                  secureToken, qrSnap, history >>


\* ------------------------------------------- QRCodeService.generateEventQR
\* crypto.createHmac('sha256', QR_SECRET).update(secureData).digest('hex')
HmacSha256(secret, eventId, timestamp) == << "hmac-sha256", secret, eventId, timestamp >>

\* `event-checkin:${eventId}:${timestamp}` + ":" + hash, as token.split(':') sees it
MakeToken(eventId, timestamp) ==
  << "event-checkin", eventId, timestamp, HmacSha256("QR_SECRET", eventId, timestamp) >>

InFlightGenerate == {q \in Procs : pc[q] \in {"gq_deact", "gq_create"}}

GenerateReadEvent(p) ==
  \E eventId \in EventIds, hours \in ExpirationHours :
    /\ Len(qrcodes) + Cardinality(InFlightGenerate) < MaxQR
    /\ Begin(p, "generateEventQR", eventId, "A", NoToken, hours)
    /\ LET ev == FindEvent(eventId) IN
       IF ev = {} THEN Finish(p, "EventNotFound")
       ELSE IF \E e \in ev : ~e.isActive THEN Finish(p, "EventInactive")
       ELSE Goto(p, "gq_deact") /\ UNCHANGED << evSnap, attSnap >>
    /\ UNCHANGED << now, store, autoReg, secureToken, qrSnap, history >>

\* Mutant: the earlier rows are left active.
DeactivateNone(eventId) == qrcodes

\* Mutant: the update flips the flag of every row of the event.
ToggleAll(eventId) ==
  [i \in 1..Len(qrcodes) |->
     IF qrcodes[i].eventId = eventId
     THEN [qrcodes[i] EXCEPT !.isActive = ~@]
     ELSE qrcodes[i]]

\* qRCode.updateMany({ where: { eventId, isActive: true }, data: { isActive: false } })
DeactivateAll(eventId) ==
  [i \in 1..Len(qrcodes) |->
     IF qrcodes[i].eventId = eventId /\ qrcodes[i].isActive
     THEN [qrcodes[i] EXCEPT !.isActive = FALSE]
     ELSE qrcodes[i]]

\* Date.now() in milliseconds, as far as tokens can tell: the clock and the
\* number of QRCode rows created so far.  A create that has completed lies at
\* least a millisecond before a later reading; two calls in flight may read
\* the same millisecond.
Millis == << now, Len(qrcodes) >>

\* await updateMany; then expiresAt and the token are computed from Date.now()
GenerateDeactivate(p) ==
  /\ Resume(p, "gq_deact")
  /\ qrcodes' = DeactivateAll(call[p].eventId)
  /\ secureToken' = [secureToken EXCEPT ![p] = MakeToken(call[p].eventId, Millis)]
  /\ Goto(p, "gq_create")
  /\ UNCHANGED << now, events, registrations, attendances, evSnap, attSnap,
                  autoReg, qrSnap, history >>

\* await QRCode.toDataURL; then qRCode.create({ data: { ..., isActive: true } })
GenerateCreate(p) ==
  /\ Resume(p, "gq_create")
  /\ qrcodes' = Append(qrcodes,
       [eventId |-> call[p].eventId, qrData |-> secureToken[p],
        expiresAt |-> secureToken[p][3][1] + call[p].hours, isActive |-> TRUE])
  /\ secureToken' = [secureToken EXCEPT ![p] = NoToken]
  /\ Finish(p, "ok")
  /\ UNCHANGED << now, events, registrations, attendances, autoReg, qrSnap, history >>

\* -------------------------------------- QRCodeService.validateCheckinToken
\* The tokens a client may send: every token ever issued, an issued token
\* with its signature segment altered, and one with the payload cut short.
ForgedTokens == { << "event-checkin", "e1" >> }

IssuedTokens == {qrcodes[i].qrData : i \in 1..Len(qrcodes)}

AlterSignature(token) == [token EXCEPT ![4] = << "altered", @ >>]

TokenChoices == IssuedTokens \cup ForgedTokens

AlteredTokens == {AlterSignature(t) : t \in IssuedTokens}

\* Mutant: the lookup takes any row of the event, active or not.
AnyRows(eventId) == {i \in 1..Len(qrcodes) : qrcodes[i].eventId = eventId}

\* The rows qRCode.findFirst({ where: { eventId, isActive: true } }) may return.
ActiveRows(eventId) ==
  {i \in 1..Len(qrcodes) : qrcodes[i].eventId = eventId /\ qrcodes[i].isActive}

\* Mutant: the row is looked up by the payload, whatever the signature.
FindActiveQRByPayload(eventId, token) ==
  {i \in 1..Len(qrcodes) :
     /\ qrcodes[i].eventId = eventId
     /\ Len(token) >= 3
     /\ qrcodes[i].qrData[2] = token[2] /\ qrcodes[i].qrData[3] = token[3]
     /\ qrcodes[i].isActive}

\* qRCode.findFirst({ where: { eventId, qrData, isActive: true } }): the
\* candidate rows; which one findFirst returns is the store's choice.
FindActiveQR(eventId, token) ==
  {i \in 1..Len(qrcodes) :
     /\ qrcodes[i].eventId = eventId
     /\ qrcodes[i].qrData = token
     /\ qrcodes[i].isActive}

\* Mutant: the event counts as started only after its start.
TokenRowErrorStrictStart(row, t) ==
  IF t > row.expiresAt THEN "TokenExpired"
  ELSE LET e == CHOOSE x \in FindEvent(row.eventId) : TRUE IN
    IF ~e.isActive THEN "EventInactive"
    ELSE IF e.startDate >= t THEN "EventNotStarted"
    ELSE IF e.endDate < t THEN "EventEnded"
    ELSE "ok"

\* The checks on the row found and on the event it includes.
TokenRowError(row, t) ==
  IF t > row.expiresAt THEN "TokenExpired"
  ELSE LET e == CHOOSE x \in FindEvent(row.eventId) : TRUE IN
    IF ~e.isActive THEN "EventInactive"
    ELSE IF e.startDate > t THEN "EventNotStarted"
    ELSE IF e.endDate < t THEN "EventEnded"
    ELSE "ok"

ValidateCheckinToken(eventId, token, t) ==
  IF Len(token) < 4 \/ token[1] # "event-checkin" THEN {"InvalidFormat"}
  ELSE IF token[2] # eventId THEN {"EventMismatch"}
  ELSE LET rows == FindActiveQR(eventId, token) IN
    IF rows = {} THEN {"TokenNotFound"}
    ELSE {TokenRowError(qrcodes[i], t) : i \in rows}

\* GET /events/:id/validate-checkin-token: validateCheckinToken on its own.
ValidateToken(p) ==
  \E eventId \in EventIds, token \in TokenChoices \cup AlteredTokens :
    /\ Begin(p, "validateCheckinToken", eventId, "A", token, 0)
    /\ \E o \in ValidateCheckinToken(eventId, token, now) : Finish(p, o)
    /\ UNCHANGED << now, store, autoReg, secureToken, qrSnap, history >>

\* ------------------------------------------ QRCodeService.checkInWithToken
\* The auto-registration checks: deadline, then capacity on the event row read.
AutoRegisterError(e, t) ==
  IF \E d \in e.registrationDeadline : t > d THEN "DeadlinePassed"
  ELSE IF \E m \in e.maxAttendees : m # 0 /\ e.currentAttendees >= m
  THEN "CapacityExceeded"
  ELSE "ok"

SnapEvent(p) == CHOOSE x \in evSnap[p] : TRUE

\* await this.validateCheckinToken(eventId, token)
TokenCheckInValidate(p) ==
  \E << eventId, userId >> \in Targets, token \in TokenChoices \cup AlteredTokens :
    /\ Begin(p, "checkInWithToken", eventId, userId, token, 0)
    /\ \E o \in ValidateCheckinToken(eventId, token, now) :
         IF o # "ok" THEN Finish(p, o)
         ELSE Goto(p, "cwt_ev") /\ UNCHANGED << evSnap, attSnap >>
    /\ UNCHANGED << now, store, autoReg, secureToken, qrSnap, history >>

TokenCheckInReadEvent(p) ==
  /\ Resume(p, "cwt_ev")
  /\ LET ev == FindEvent(call[p].eventId) IN
     IF ev = {} THEN Finish(p, "EventNotFound")
     ELSE /\ Goto(p, "cwt_att")
          /\ evSnap' = [evSnap EXCEPT ![p] = ev]
          /\ UNCHANGED attSnap
  /\ UNCHANGED << now, store, autoReg, secureToken, qrSnap, history >>

TokenCheckInFindAttendance(p) ==
  /\ Resume(p, "cwt_att")
  /\ LET att == FindAttendance(call[p].eventId, call[p].userId) IN
     IF HasCheckedIn(att) THEN Finish(p, "AlreadyCheckedIn")
     ELSE /\ Goto(p, IF SnapEvent(p).registrationRequired THEN "cwt_reg" ELSE "cwt_write")
          /\ attSnap' = [attSnap EXCEPT ![p] = att]
          /\ UNCHANGED evSnap
  /\ UNCHANGED << now, store, autoReg, secureToken, qrSnap, history >>

TokenCheckInFindRegistration(p) ==
  /\ Resume(p, "cwt_reg")
  /\ LET err == AutoRegisterError(SnapEvent(p), now) IN
     IF FindRegistration(call[p].eventId, call[p].userId) # {}
     THEN Goto(p, "cwt_write") /\ UNCHANGED << evSnap, attSnap >>
     ELSE IF err # "ok" THEN Finish(p, err)
     ELSE Goto(p, "cwt_tx") /\ UNCHANGED << evSnap, attSnap >>
  /\ UNCHANGED << now, store, autoReg, secureToken, qrSnap, history >>

TokenCheckInTx(p) ==
  /\ Resume(p, "cwt_tx")
  /\ CreateRegistrationTx(call[p].eventId, call[p].userId)
  /\ IF registrations' # registrations
     THEN /\ autoReg' = [autoReg EXCEPT ![p] = TRUE]
          /\ Goto(p, "cwt_write")
          /\ UNCHANGED << evSnap, attSnap >>
     ELSE Finish(p, "DbError") /\ UNCHANGED autoReg
  /\ UNCHANGED << now, attendances, qrcodes, secureToken, qrSnap, history >>

TokenCheckInWrite(p) ==
  /\ Resume(p, "cwt_write")
  /\ WriteCheckIn(p, call[p].eventId, call[p].userId)
  /\ UNCHANGED << now, events, registrations, qrcodes, autoReg,
                  secureToken, qrSnap, history >>

\* ---------------------------------------- QRCodeService.validateAndCheckIn
\* The route's event id is not passed on: the event is the token's parts[1].
ValidateAndCheckIn(qrData, t) ==
  IF Len(qrData) < 2 \/ qrData[1] # "event-checkin" THEN {"InvalidFormat"}
  ELSE LET rows == FindActiveQR(qrData[2], qrData) IN
    IF rows = {} THEN {"TokenNotFound"}
    ELSE {TokenRowError(qrcodes[i], t) : i \in rows}

QrCheckInFind(p) ==
  \E << eventId, userId >> \in Targets, qrData \in TokenChoices :
    /\ Begin(p, "validateAndCheckIn", eventId, userId, qrData, 0)
    /\ \E o \in ValidateAndCheckIn(qrData, now) :
         IF o # "ok" THEN Finish(p, o)
         ELSE /\ Goto(p, "vac_att")
              /\ evSnap' = [evSnap EXCEPT ![p] = FindEvent(qrData[2])]
              /\ UNCHANGED attSnap
    /\ UNCHANGED << now, store, autoReg, secureToken, qrSnap, history >>

QrCheckInFindAttendance(p) ==
  /\ Resume(p, "vac_att")
  /\ LET att == FindAttendance(SnapEvent(p).id, call[p].userId) IN
     IF HasCheckedIn(att) THEN Finish(p, "AlreadyCheckedIn")
     ELSE /\ Goto(p, IF SnapEvent(p).registrationRequired THEN "vac_reg" ELSE "vac_write")
          /\ attSnap' = [attSnap EXCEPT ![p] = att]
          /\ UNCHANGED evSnap
  /\ UNCHANGED << now, store, autoReg, secureToken, qrSnap, history >>

QrCheckInFindRegistration(p) ==
  /\ Resume(p, "vac_reg")
  /\ LET err == AutoRegisterError(SnapEvent(p), now) IN
     IF FindRegistration(SnapEvent(p).id, call[p].userId) # {}
     THEN Goto(p, "vac_write") /\ UNCHANGED << evSnap, attSnap >>
     ELSE IF err # "ok" THEN Finish(p, err)
     ELSE Goto(p, "vac_tx") /\ UNCHANGED << evSnap, attSnap >>
  /\ UNCHANGED << now, store, autoReg, secureToken, qrSnap, history >>

QrCheckInTx(p) ==
  /\ Resume(p, "vac_tx")
  /\ CreateRegistrationTx(SnapEvent(p).id, call[p].userId)
  /\ IF registrations' # registrations
     THEN /\ autoReg' = [autoReg EXCEPT ![p] = TRUE]
          /\ Goto(p, "vac_write")
          /\ UNCHANGED << evSnap, attSnap >>
     ELSE Finish(p, "DbError") /\ UNCHANGED autoReg
  /\ UNCHANGED << now, attendances, qrcodes, secureToken, qrSnap, history >>

QrCheckInWrite(p) ==
  /\ Resume(p, "vac_write")
  /\ WriteCheckIn(p, SnapEvent(p).id, call[p].userId)
  /\ UNCHANGED << now, events, registrations, qrcodes, autoReg,
                  secureToken, qrSnap, history >>

\* --------------------------------------------- QRCodeService.revokeQRCode
\* qRCode.findFirst({ where: { eventId, isActive: true } })
RevokeFind(p) ==
  \E eventId \in EventIds :
    /\ Begin(p, "revokeQRCode", eventId, "A", NoToken, 0)
    /\ IF ActiveRows(eventId) = {}
       THEN Finish(p, "NoActiveToken") /\ UNCHANGED qrSnap
       ELSE /\ \E i \in ActiveRows(eventId) : qrSnap' = [qrSnap EXCEPT ![p] = {i}]
            /\ Goto(p, "rv_update")
            /\ UNCHANGED << evSnap, attSnap >>
    /\ UNCHANGED << now, store, autoReg, secureToken, history >>

\* qRCode.update({ where: { id: qrCode.id }, data: { isActive: false } })
RevokeUpdate(p) ==
  /\ Resume(p, "rv_update")
  /\ qrcodes' = [i \in 1..Len(qrcodes) |->
       IF i \in qrSnap[p] THEN [qrcodes[i] EXCEPT !.isActive = FALSE] ELSE qrcodes[i]]
  /\ qrSnap' = [qrSnap EXCEPT ![p] = {}]
  /\ Finish(p, "ok")
  /\ UNCHANGED << now, events, registrations, attendances, autoReg, secureToken,
                  history >>

\* ------------------------------------ QRCodeService.cleanupExpiredQRCodes
\* Mutant: the sweep takes a row at the instant it expires.
ExpiredActiveRowsInclusive ==
  {i \in 1..Len(qrcodes) : qrcodes[i].expiresAt <= now /\ qrcodes[i].isActive}

\* The rows updateMany({ where: { expiresAt: { lt: new Date() }, isActive: true } })
\* matches.
ExpiredActiveRows ==
  {i \in 1..Len(qrcodes) : qrcodes[i].expiresAt < now /\ qrcodes[i].isActive}

\* The sweep runs on its own timer, apart from the requests.
CleanupExpiredQRCodes ==
  /\ ExpiredActiveRows # {}
  /\ qrcodes' = [i \in 1..Len(qrcodes) |->
       IF i \in ExpiredActiveRows THEN [qrcodes[i] EXCEPT !.isActive = FALSE]
       ELSE qrcodes[i]]
  /\ UNCHANGED << concurrent, now, events, registrations, attendances, pc, call,
                  evSnap, attSnap, autoReg, secureToken, qrSnap, result, served,
                  history, inviteVars >>

\* ------------------------------------------------------------------ clock
Tick ==
  /\ now < MaxTime
  /\ concurrent \/ pc[Worker] = "idle"
  /\ now' = now + 1
  /\ UNCHANGED << concurrent, store, pc, call, evSnap, attSnap, autoReg, secureToken,
                  result, served, qrSnap, history, inviteVars >>

\* ------------------------------------------------------------- controllers
\* The run of section 8: A registers, B registers, A cancels, B registers,
\* on an active event that requires registration, has one seat, no deadline
\* and has not started.
Scenario ==
  << [op |-> "registerForEvent", userId |-> "A"],
     [op |-> "registerForEvent", userId |-> "B"],
     [op |-> "cancelRegistration", userId |-> "A"],
     [op |-> "registerForEvent", userId |-> "B"] >>

ScenarioEvent(e) ==
  /\ e.isActive /\ e.registrationRequired
  /\ e.maxAttendees = {1} /\ e.registrationDeadline = {}
  /\ now < e.startDate

Off == << "off" >>

\* The results of the calls answered so far, as long as they are the calls of
\* Scenario in order on the scenario's event; Off from the first other call on.
Record(c, r) ==
  IF /\ history # Off
     /\ Len(history) < Len(Scenario)
     /\ c.op = Scenario[Len(history) + 1].op
     /\ c.userId = Scenario[Len(history) + 1].userId
     /\ \E e \in FindEvent(c.eventId) : ScenarioEvent(e)
  THEN Append(history, r)
  ELSE Off

\* asyncHandler: the controller sends the result, or the error handler the error.
Respond(p) ==
  /\ pc[p] = "done" /\ UNCHANGED << concurrent, inviteVars >>
  /\ pc' = [pc EXCEPT ![p] = "idle"]
  /\ history' = Record(call[p], result[p])
  /\ call' = [call EXCEPT ![p] = NoCall]
  /\ result' = [result EXCEPT ![p] = "none"]
  /\ autoReg' = [autoReg EXCEPT ![p] = FALSE]
  /\ UNCHANGED << now, store, evSnap, attSnap, secureToken, qrSnap, served >>

\* ------------------------------------------------------------ next states
Next ==
  \/ \E p \in Procs :
       \/ RegisterReadEvent(p)
       \/ RegisterFindRegistration(p)
       \/ RegisterTx(p)
       \/ CancelFindRegistration(p)
       \/ CancelReadEvent(p)
       \/ CancelTx(p)
       \/ CheckInReadEvent(p)
       \/ CheckInFindRegistration(p)
       \/ CheckInFindAttendance(p)
       \/ CheckInWrite(p)
       \/ MarkReadEvent(p)
       \/ MarkFindRegistration(p)
       \/ MarkFindAttendance(p)
       \/ MarkWrite(p)
       \/ CheckOutFindAttendance(p)
       \/ CheckOutWrite(p)
       \/ GenerateReadEvent(p)
       \/ GenerateDeactivate(p)
       \/ GenerateCreate(p)
       \/ ValidateToken(p)
       \/ RevokeFind(p)
       \/ RevokeUpdate(p)
       \/ TokenCheckInValidate(p)
       \/ TokenCheckInReadEvent(p)
       \/ TokenCheckInFindAttendance(p)
       \/ TokenCheckInFindRegistration(p)
       \/ TokenCheckInTx(p)
       \/ TokenCheckInWrite(p)
       \/ QrCheckInFind(p)
       \/ QrCheckInFindAttendance(p)
       \/ QrCheckInFindRegistration(p)
       \/ QrCheckInTx(p)
       \/ QrCheckInWrite(p)
       \/ Respond(p)
  \/ CleanupExpiredQRCodes
  \/ Tick

\* Requests overlap and the clock runs on; MaxCalls requests are accepted.
Spec == Init /\ [][Next]_vars

\* One worker serves one request after the other; the clock stands still
\* while a request is served.
SpecSeq == InitSeq /\ [][Next]_vars

\* ================================================== invitation onboarding
\* The contacts of the requests, after validateContactMethod: an email, a
\* phone number or both.  People are invited by one email, one phone number
\* or both; they accept giving that email, another one, or the phone number.
Contact(email, phone) == [email |-> email, phone |-> phone]

InviteContacts ==
  {Contact({"a@x"}, {}), Contact({}, {"+44"}), Contact({"a@x"}, {"+44"})}

AcceptContacts ==
  {Contact({"a@x"}, {}), Contact({"b@x"}, {}), Contact({}, {"+44"})}

\* generateOTP(): six digits; the value it has in development mode.
Otps == {<< "otp", "123456" >>}

\* generateInvitationToken(): crypto.randomBytes(32), never drawn twice.
InvitationToken(id) == << "hex", id >>

\* How long an invitation lasts on the model's clock: 7 days when created by
\* AuthService.createInvitation, 24 hours when created by UserService.inviteUser.
SevenDays == 2
OneDay == 1

\* An invitation request is accepted.
BeginInvite(p, op, email, phone, token) ==
  /\ pc[p] = "idle"
  /\ served < MaxCalls
  /\ served' = served + 1
  /\ inviteCall' = [inviteCall EXCEPT ![p] =
       [op |-> op, email |-> email, phone |-> phone, token |-> token]]

\* A later await of an invitation method.
ResumeInvite(p, label) ==
  /\ pc[p] = label
  /\ UNCHANGED << inviteCall, served >>

\* The method returns or throws.
FinishInvite(p, r) ==
  /\ pc' = [pc EXCEPT ![p] = "done"]
  /\ result' = [result EXCEPT ![p] = r]

\* The local `invitation` of worker p.
SnapInvitation(p) == CHOOSE x \in inviteSnap[p].invitation : TRUE

\* user.findFirst({ where: { OR: [...(email ? [{ email }] : []), ...(phone ? [{ phone }] : [])] } })
FindUserByContact(email, phone) ==
  {u \in accounts : (email # {} /\ u.email = email) \/ (phone # {} /\ u.phone = phone)}

\* invitation.findFirst({ where: { OR: [email, phone as given], isAccepted: false,
\* expiresAt: { gt: new Date() } } })
FindPendingInvitation(email, phone) ==
  {i \in invitations :
     /\ (email # {} /\ i.email = email) \/ (phone # {} /\ i.phone = phone)
     /\ ~i.isAccepted
     /\ i.expiresAt > now}

\* The same lookup as UserService.inviteUser writes it: OR: [{ email }, { phone }]
\* with .filter(Boolean) dropping nothing, and a condition on an undefined
\* value matching every row.
FindPendingInvitationLoose(email, phone) ==
  {i \in invitations :
     /\ (email = {} \/ i.email = email) \/ (phone = {} \/ i.phone = phone)
     /\ ~i.isAccepted
     /\ i.expiresAt > now}

\* invitation.create({ data: { email, phone, role, token, invitedBy, expiresAt } })
NewInvitation(email, phone, ttl) ==
  [id |-> nextInvitation, email |-> email, phone |-> phone,
   token |-> InvitationToken(nextInvitation), isAccepted |-> FALSE,
   expiresAt |-> now + ttl]

FindInvitationById(id) == {i \in invitations : i.id = id}

FindInvitationByToken(token) == {i \in invitations : i.token = token}

\* Mutant: the row stays when sending has failed.
KeepInvitation(id) == invitations

\* invitation.delete({ where: { id } })
DeleteInvitation(id) == invitations \ FindInvitationById(id)

\* invitation.update({ where: { id }, data: { token: otp } })
StoreOtp(id, otp) ==
  {IF i.id = id THEN [i EXCEPT !.token = otp] ELSE i : i \in invitations}

\* The update throws when the row is gone or another row holds the token.
StoreOtpFails(id, otp) ==
  \/ FindInvitationById(id) = {}
  \/ \E i \in invitations : i.id # id /\ i.token = otp

\* ------------------------------------------- AuthService.createInvitation
CreateInvitationFindUser(p) ==
  \E c \in InviteContacts :
    /\ BeginInvite(p, "createInvitation", c.email, c.phone, NoToken)
    /\ IF FindUserByContact(c.email, c.phone) # {}
       THEN FinishInvite(p, "UserExists")
       ELSE Goto(p, "cinv_find")
    /\ UNCHANGED << concurrent, now, eventVars, invitations, accounts,
                    nextInvitation, inviteSnap >>

CreateInvitationFindInvitation(p) ==
  /\ ResumeInvite(p, "cinv_find")
  /\ IF FindPendingInvitation(inviteCall[p].email, inviteCall[p].phone) # {}
     THEN FinishInvite(p, "InvitationExists")
     ELSE Goto(p, "cinv_create")
  /\ UNCHANGED << concurrent, now, eventVars, invitations, accounts,
                  nextInvitation, inviteSnap >>

CreateInvitationCreate(p) ==
  /\ ResumeInvite(p, "cinv_create")
  /\ nextInvitation <= MaxInvitations
  /\ LET row == NewInvitation(inviteCall[p].email, inviteCall[p].phone, SevenDays) IN
       /\ invitations' = invitations \cup {row}
       /\ inviteSnap' = [inviteSnap EXCEPT ![p].invitation = {row}]
  /\ nextInvitation' = nextInvitation + 1
  /\ Goto(p, IF inviteCall[p].email # {} THEN "cinv_email" ELSE "cinv_sms")
  /\ UNCHANGED << concurrent, now, eventVars, accounts >>

\* await sendEmail(...): it returns or throws
CreateInvitationSendEmail(p) ==
  /\ ResumeInvite(p, "cinv_email")
  /\ \E sent \in BOOLEAN :
       IF ~sent THEN Goto(p, "cinv_delete")
       ELSE IF inviteCall[p].phone # {} THEN Goto(p, "cinv_sms")
       ELSE FinishInvite(p, "ok")
  /\ UNCHANGED << concurrent, now, eventVars, invitations, accounts,
                  nextInvitation, inviteSnap >>

\* const otp = generateOTP(); await sendSMS(...): it returns or throws
CreateInvitationSendSMS(p) ==
  /\ ResumeInvite(p, "cinv_sms")
  /\ \E sent \in BOOLEAN, otp \in Otps :
       /\ inviteSnap' = [inviteSnap EXCEPT ![p].otp = otp]
       /\ Goto(p, IF sent THEN "cinv_otp" ELSE "cinv_delete")
  /\ UNCHANGED << concurrent, now, eventVars, invitations, accounts, nextInvitation >>

CreateInvitationStoreOtp(p) ==
  /\ ResumeInvite(p, "cinv_otp")
  /\ IF StoreOtpFails(SnapInvitation(p).id, inviteSnap[p].otp)
     THEN Goto(p, "cinv_delete") /\ UNCHANGED invitations
     ELSE /\ invitations' = StoreOtp(SnapInvitation(p).id, inviteSnap[p].otp)
          /\ FinishInvite(p, "ok")
  /\ UNCHANGED << concurrent, now, eventVars, accounts, nextInvitation, inviteSnap >>

\* catch: await invitation.delete, which throws when the row is gone; then
\* throw INVITATION_SEND_FAILED
CreateInvitationDelete(p) ==
  /\ ResumeInvite(p, "cinv_delete")
  /\ invitations' = DeleteInvitation(SnapInvitation(p).id)
  /\ FinishInvite(p, IF FindInvitationById(SnapInvitation(p).id) = {}
                     THEN "DbError" ELSE "InvitationSendFailed")
  /\ UNCHANGED << concurrent, now, eventVars, accounts, nextInvitation, inviteSnap >>

\* ---------------------------------------------------- UserService.inviteUser
\* The role rule (a SUBADMIN invites no SUBADMIN), then user.findUnique by
\* email when an email is given.
InviteUserFindByEmail(p) ==
  \E c \in InviteContacts, allowed \in BOOLEAN :
    /\ BeginInvite(p, "inviteUser", c.email, c.phone, NoToken)
    /\ IF ~allowed THEN FinishInvite(p, "Unauthorized")
       ELSE IF c.email # {} /\ FindUserByContact(c.email, {}) # {}
       THEN FinishInvite(p, "UserExists")
       ELSE Goto(p, IF c.phone # {} THEN "iu_phone" ELSE "iu_find")
    /\ UNCHANGED << concurrent, now, eventVars, invitations, accounts,
                    nextInvitation, inviteSnap >>

\* user.findUnique({ where: { phone } })
InviteUserFindByPhone(p) ==
  /\ ResumeInvite(p, "iu_phone")
  /\ IF FindUserByContact({}, inviteCall[p].phone) # {}
     THEN FinishInvite(p, "UserExists")
     ELSE Goto(p, "iu_find")
  /\ UNCHANGED << concurrent, now, eventVars, invitations, accounts,
                  nextInvitation, inviteSnap >>

InviteUserFindInvitation(p) ==
  /\ ResumeInvite(p, "iu_find")
  /\ IF FindPendingInvitationLoose(inviteCall[p].email, inviteCall[p].phone) # {}
     THEN FinishInvite(p, "InvitationExists")
     ELSE Goto(p, "iu_create")
  /\ UNCHANGED << concurrent, now, eventVars, invitations, accounts,
                  nextInvitation, inviteSnap >>

InviteUserCreate(p) ==
  /\ ResumeInvite(p, "iu_create")
  /\ nextInvitation <= MaxInvitations
  /\ LET row == NewInvitation(inviteCall[p].email, inviteCall[p].phone, OneDay) IN
       /\ invitations' = invitations \cup {row}
       /\ inviteSnap' = [inviteSnap EXCEPT ![p].invitation = {row}]
  /\ nextInvitation' = nextInvitation + 1
  /\ Goto(p, IF inviteCall[p].email # {} THEN "iu_email" ELSE "iu_otp")
  /\ UNCHANGED << concurrent, now, eventVars, accounts >>

\* await sendInvitationEmail(...)
InviteUserSendEmail(p) ==
  /\ ResumeInvite(p, "iu_email")
  /\ \E sent \in BOOLEAN :
       IF ~sent THEN Goto(p, "iu_delete")
       ELSE IF inviteCall[p].phone # {} THEN Goto(p, "iu_otp")
       ELSE FinishInvite(p, "ok")
  /\ UNCHANGED << concurrent, now, eventVars, invitations, accounts,
                  nextInvitation, inviteSnap >>

\* const otp = generateOTP(); await storeOTP(phone, otp): Redis answers or throws
InviteUserStoreOTP(p) ==
  /\ ResumeInvite(p, "iu_otp")
  /\ \E stored \in BOOLEAN, otp \in Otps :
       /\ inviteSnap' = [inviteSnap EXCEPT ![p].otp = otp]
       /\ Goto(p, IF stored THEN "iu_sms" ELSE "iu_delete")
  /\ UNCHANGED << concurrent, now, eventVars, invitations, accounts, nextInvitation >>

\* await sendSMS(...)
InviteUserSendSMS(p) ==
  /\ ResumeInvite(p, "iu_sms")
  /\ \E sent \in BOOLEAN : Goto(p, IF sent THEN "iu_update" ELSE "iu_delete")
  /\ UNCHANGED << concurrent, now, eventVars, invitations, accounts,
                  nextInvitation, inviteSnap >>

InviteUserUpdate(p) ==
  /\ ResumeInvite(p, "iu_update")
  /\ IF StoreOtpFails(SnapInvitation(p).id, inviteSnap[p].otp)
     THEN Goto(p, "iu_delete") /\ UNCHANGED invitations
     ELSE /\ invitations' = StoreOtp(SnapInvitation(p).id, inviteSnap[p].otp)
          /\ FinishInvite(p, "ok")
  /\ UNCHANGED << concurrent, now, eventVars, accounts, nextInvitation, inviteSnap >>

InviteUserDelete(p) ==
  /\ ResumeInvite(p, "iu_delete")
  /\ invitations' = DeleteInvitation(SnapInvitation(p).id)
  /\ FinishInvite(p, IF FindInvitationById(SnapInvitation(p).id) = {}
                     THEN "DbError" ELSE "InvitationSendFailed")
  /\ UNCHANGED << concurrent, now, eventVars, accounts, nextInvitation, inviteSnap >>

\* ------------------------------------------- AuthService.acceptInvitation
\* The tokens a client may send: those of the rows, and one of no row.
AcceptTokens == {i.token : i \in invitations} \cup {InvitationToken(0)}

\* The checks on the row found, in the order of the code.
AcceptError(inv, t) ==
  IF inv = {} THEN "InvalidToken"
  ELSE LET i == CHOOSE x \in inv : TRUE IN
    IF i.isAccepted THEN "InvitationAlreadyAccepted"
    ELSE IF i.expiresAt < t THEN "InvitationExpired"
    ELSE "ok"

\* await invitation.findUnique({ where: { token } })
AcceptFindInvitation(p) ==
  \E c \in AcceptContacts, token \in AcceptTokens :
    /\ BeginInvite(p, "acceptInvitation", c.email, c.phone, token)
    /\ LET inv == FindInvitationByToken(token)
           err == AcceptError(inv, now) IN
       IF err # "ok"
       THEN FinishInvite(p, err) /\ UNCHANGED inviteSnap
       ELSE /\ Goto(p, "ai_create")
            /\ inviteSnap' = [inviteSnap EXCEPT ![p].invitation = inv]
    /\ UNCHANGED << concurrent, now, eventVars, invitations, accounts, nextInvitation >>

\* email: email || invitation.email, phone: phone || invitation.phone
NewUser(c, i) ==
  [email |-> IF c.email # {} THEN c.email ELSE i.email,
   phone |-> IF c.phone # {} THEN c.phone ELSE i.phone]

\* user.create throws when the email or the phone is taken; null is never taken.
UserCreateFails(u) ==
  \E x \in accounts : (u.email # {} /\ x.email = u.email)
                         \/ (u.phone # {} /\ x.phone = u.phone)

\* await hashPassword(password); await prisma.user.create
AcceptCreateUser(p) ==
  /\ ResumeInvite(p, "ai_create")
  /\ LET u == NewUser(inviteCall[p], SnapInvitation(p)) IN
       IF UserCreateFails(u)
       THEN FinishInvite(p, "DbError") /\ UNCHANGED accounts
       ELSE accounts' = accounts \cup {u} /\ Goto(p, "ai_update")
  /\ UNCHANGED << concurrent, now, eventVars, invitations, nextInvitation, inviteSnap >>

\* invitation.update({ where: { id }, data: { isAccepted: true } })
AcceptMarkAccepted(p) ==
  /\ ResumeInvite(p, "ai_update")
  /\ IF FindInvitationById(SnapInvitation(p).id) = {}
     THEN FinishInvite(p, "DbError") /\ UNCHANGED invitations
     ELSE /\ invitations' =
               {IF i.id = SnapInvitation(p).id THEN [i EXCEPT !.isAccepted = TRUE] ELSE i :
                  i \in invitations}
          /\ FinishInvite(p, "ok")
  /\ UNCHANGED << concurrent, now, eventVars, accounts, nextInvitation, inviteSnap >>

\* --------------------------------------- DELETE /invitations/:id (revoke)
\* await invitation.findUnique({ where: { id } }); an accepted one is kept,
\* and a SUBADMIN revokes no invitation made by another ADMIN
RevokeInvitationFind(p) ==
  \E id \in 1..MaxInvitations :
    /\ BeginInvite(p, "revokeInvitation", {}, {}, NoToken)
    /\ LET inv == FindInvitationById(id) IN
       IF inv = {} THEN FinishInvite(p, "InvitationNotFound") /\ UNCHANGED inviteSnap
       ELSE IF \E i \in inv : i.isAccepted
       THEN FinishInvite(p, "InvitationAccepted") /\ UNCHANGED inviteSnap
       ELSE \E allowed \in BOOLEAN :
         IF ~allowed THEN FinishInvite(p, "Forbidden") /\ UNCHANGED inviteSnap
         ELSE /\ Goto(p, "ri_delete")
              /\ inviteSnap' = [inviteSnap EXCEPT ![p].invitation = inv]
    /\ UNCHANGED << concurrent, now, eventVars, invitations, accounts, nextInvitation >>

RevokeInvitationDelete(p) ==
  /\ ResumeInvite(p, "ri_delete")
  /\ invitations' = DeleteInvitation(SnapInvitation(p).id)
  /\ FinishInvite(p, IF FindInvitationById(SnapInvitation(p).id) = {}
                     THEN "DbError" ELSE "ok")
  /\ UNCHANGED << concurrent, now, eventVars, accounts, nextInvitation, inviteSnap >>

\* asyncHandler: the controller answers the invitation request.
RespondInvite(p) ==
  /\ pc[p] = "done"
  /\ pc' = [pc EXCEPT ![p] = "idle"]
  /\ result' = [result EXCEPT ![p] = "none"]
  /\ inviteCall' = [inviteCall EXCEPT ![p] = NoInvite]
  /\ inviteSnap' = [inviteSnap EXCEPT ![p] = NoLocals]
  /\ UNCHANGED << concurrent, now, eventVars, served, invitations, accounts,
                  nextInvitation >>

InitInvite ==
  /\ Start
  /\ concurrent = TRUE
  /\ \A e \in events : e.isActive /\ e.registrationRequired
                         /\ e.registrationDeadline = {} /\ e.maxAttendees = {}

NextInvite ==
  \/ \E p \in Procs :
       \/ CreateInvitationFindUser(p)
       \/ CreateInvitationFindInvitation(p)
       \/ CreateInvitationCreate(p)
       \/ CreateInvitationSendEmail(p)
       \/ CreateInvitationSendSMS(p)
       \/ CreateInvitationStoreOtp(p)
       \/ CreateInvitationDelete(p)
       \/ InviteUserFindByEmail(p)
       \/ InviteUserFindByPhone(p)
       \/ InviteUserFindInvitation(p)
       \/ InviteUserCreate(p)
       \/ InviteUserSendEmail(p)
       \/ InviteUserStoreOTP(p)
       \/ InviteUserSendSMS(p)
       \/ InviteUserUpdate(p)
       \/ InviteUserDelete(p)
       \/ AcceptFindInvitation(p)
       \/ AcceptCreateUser(p)
       \/ AcceptMarkAccepted(p)
       \/ RevokeInvitationFind(p)
       \/ RevokeInvitationDelete(p)
       \/ RespondInvite(p)
  \/ Tick

\* The invitation requests overlap; the event tables hold one event, untouched.
SpecInvite == InitInvite /\ [][NextInvite]_vars

\* =================================================================== claims
\* What the claims speak of, read off the store.
RegistrationRow(eventId, userId) ==
  [eventId |-> eventId, userId |-> userId, status |-> "CONFIRMED"]

RegistrationsOf(eventId) == {r \in registrations : r.eventId = eventId}

CurrentAttendees(evs, eventId) ==
  LET e == CHOOSE x \in evs : x.id = eventId IN e.currentAttendees

ActiveQRCodes(eventId) ==
  {i \in 1..Len(qrcodes) : qrcodes[i].eventId = eventId /\ qrcodes[i].isActive}

\* Worker p's method returns or throws in this step.
Completes(p, op) ==
  pc[p] # "done" /\ pc'[p] = "done" /\ call'[p].op = op

\* C1: for every event with maxAttendees = N, at most N registrations for the
\* event exist at once, whatever the interleaving of concurrent Register calls.
C1_AtMostMaxRegistrations ==
  \A e \in events : \A m \in e.maxAttendees :
    Cardinality(RegistrationsOf(e.id)) <= m

\* C2: in every reachable state each event has currentAttendees >= 0 and, when
\* maxAttendees is set, currentAttendees <= maxAttendees.
C2_AttendeesWithinBounds ==
  \A e \in events :
    /\ e.currentAttendees >= 0
    /\ \A m \in e.maxAttendees : e.currentAttendees <= m

\* C3: the commit of Register either adds the CONFIRMED registration and adds
\* exactly 1 to currentAttendees, or fails and changes neither; no step of it
\* leaves the one without the other.
C3_RegisterAtomic ==
  [][\A p \in Procs :
       (pc[p] = "reg_tx" /\ pc'[p] = "done") =>
         LET eventId == call[p].eventId
             row == RegistrationRow(eventId, call[p].userId) IN
           \/ /\ result'[p] = "ok"
              /\ row \notin registrations
              /\ registrations' = registrations \cup {row}
              /\ CurrentAttendees(events', eventId) = CurrentAttendees(events, eventId) + 1
           \/ /\ result'[p] # "ok"
              /\ registrations' = registrations
              /\ events' = events]_vars

\* C3 witness: two Register calls for the same pair have both finished, one
\* committed and the other failed on the create.
C3_Witness ==
  \E p, q \in Procs :
    /\ pc[p] = "done" /\ call[p].op = "registerForEvent" /\ result[p] = "ok"
    /\ pc[q] = "done" /\ call[q].op = "registerForEvent" /\ result[q] = "DbError"
    /\ call[p].userId = call[q].userId

\* C4: a CheckInWithToken that fails after its auto-registration leaves no
\* registration of the pair, and one that succeeds after it leaves both the
\* registration and the CHECKED_IN attendance.
C4_TokenCheckInAtomic ==
  \A p \in Procs :
    (pc[p] = "done" /\ call[p].op = "checkInWithToken" /\ autoReg[p]) =>
      IF result[p] = "ok"
      THEN /\ FindRegistration(call[p].eventId, call[p].userId) # {}
           /\ \E a \in FindAttendance(call[p].eventId, call[p].userId) :
                a.status = "CHECKED_IN"
      ELSE FindRegistration(call[p].eventId, call[p].userId) = {}

\* C5: every event has at most one QRCode row with isActive = true, also while
\* two IssueToken calls for it interleave.
C5_OneActiveQRPerEvent ==
  \A eventId \in EventIds : Cardinality(ActiveQRCodes(eventId)) <= 1

\* C6: Register fails with the error of the first of these that holds: event
\* absent, inactive, registration not required, now >= startDate, deadline set
\* and reached, pair already registered, maxAttendees set and reached; and a
\* failed Register changes neither the registrations nor currentAttendees.
RegisterExpected(eventId, userId) ==
  LET ev == {e \in events : e.id = eventId} IN
  IF ev = {} THEN "EventNotFound"
  ELSE IF \E e \in ev : ~e.isActive THEN "EventInactive"
  ELSE IF \E e \in ev : ~e.registrationRequired THEN "RegistrationNotRequired"
  ELSE IF \E e \in ev : now >= e.startDate THEN "EventAlreadyStarted"
  ELSE IF \E e \in ev : \E d \in e.registrationDeadline : now >= d THEN "DeadlinePassed"
  ELSE IF RegistrationRow(eventId, userId) \in registrations THEN "AlreadyRegistered"
  ELSE IF \E e \in ev : \E m \in e.maxAttendees : e.currentAttendees >= m
  THEN "CapacityExceeded"
  ELSE "ok"

C6_RegisterErrors ==
  [][\A p \in Procs :
       Completes(p, "registerForEvent") =>
         LET expected == RegisterExpected(call'[p].eventId, call'[p].userId) IN
           /\ expected # "ok" => result'[p] = expected
           /\ result'[p] # "ok" => registrations' = registrations /\ events' = events]_vars

\* C6 witness: a Register has been refused for capacity while another user
\* holds the only seat.
C6_Witness ==
  \E p \in Procs :
    /\ pc[p] = "done" /\ call[p].op = "registerForEvent"
    /\ result[p] = "CapacityExceeded"
    /\ RegistrationRow(call[p].eventId, call[p].userId) \notin registrations
    /\ registrations # {}

\* C7: Cancel fails with RegistrationNotFound when the pair has no registration
\* and with EventAlreadyStarted when now >= startDate, changing nothing; on
\* success it deletes that registration, takes exactly 1 from currentAttendees,
\* and changes no other registration, no attendance and no QR code.
C7_Cancel ==
  [][\A p \in Procs :
       Completes(p, "cancelRegistration") =>
         LET eventId == call'[p].eventId
             row == RegistrationRow(eventId, call'[p].userId) IN
           IF row \notin registrations
           THEN result'[p] = "RegistrationNotFound" /\ store' = store
           ELSE IF \E e \in events : e.id = eventId /\ now >= e.startDate
           THEN result'[p] = "EventAlreadyStarted" /\ store' = store
           ELSE /\ result'[p] = "ok"
                /\ registrations' = registrations \ {row}
                /\ CurrentAttendees(events', eventId) = CurrentAttendees(events, eventId) - 1
                /\ attendances' = attendances
                /\ qrcodes' = qrcodes]_vars

\* C7 witness: a Cancel has succeeded and another user's registration is
\* still there.
C7_Witness ==
  \E p \in Procs :
    /\ pc[p] = "done" /\ call[p].op = "cancelRegistration" /\ result[p] = "ok"
    /\ RegistrationRow(call[p].eventId, call[p].userId) \notin registrations
    /\ \E r \in registrations : r.eventId = call[p].eventId

\* C8: on an event with one seat, registration required and a future start,
\* Register(A), Register(B), Cancel(A), Register(B) in sequence give: ok with
\* currentAttendees 1; CapacityExceeded with 1; ok with 0; ok with 1 and B the
\* only registrant.
C8_Scenario ==
  (pc[Worker] = "idle" /\ history # Off) =>
    LET n == Len(history)
        seats == CurrentAttendees(events, "e1") IN
      /\ n >= 1 => history[1] = "ok"
      /\ n = 1 => seats = 1 /\ registrations = {RegistrationRow("e1", "A")}
      /\ n >= 2 => history[2] = "CapacityExceeded"
      /\ n = 2 => seats = 1 /\ registrations = {RegistrationRow("e1", "A")}
      /\ n >= 3 => history[3] = "ok"
      /\ n = 3 => seats = 0 /\ registrations = {}
      /\ n >= 4 => history[4] = "ok"
      /\ n = 4 => seats = 1 /\ registrations = {RegistrationRow("e1", "B")}

\* C8 witness: the four calls of the scenario have been answered.
C8_Witness == pc[Worker] = "idle" /\ history # Off /\ Len(history) = 4

\* C9: CheckIn fails with the error of the first of these that holds: event
\* absent, inactive, now < startDate, now > endDate, registration required and
\* none for the pair, registration not CONFIRMED; it then changes no attendance.
\* When none holds and the pair has no attendance, it creates the record with
\* checkInTime = now and status CHECKED_IN.
CheckInExpected(eventId, userId) ==
  LET ev == {e \in events : e.id = eventId}
      reg == {r \in registrations : r.eventId = eventId /\ r.userId = userId} IN
  IF ev = {} THEN "EventNotFound"
  ELSE IF \E e \in ev : ~e.isActive THEN "EventInactive"
  ELSE IF \E e \in ev : now < e.startDate THEN "EventNotStarted"
  ELSE IF \E e \in ev : now > e.endDate THEN "EventEnded"
  ELSE IF (\E e \in ev : e.registrationRequired) /\ reg = {} THEN "UserNotRegistered"
  ELSE IF (\E e \in ev : e.registrationRequired) /\ \E r \in reg : r.status # "CONFIRMED"
  THEN "RegistrationNotConfirmed"
  ELSE "ok"

C9_CheckIn ==
  [][\A p \in Procs :
       Completes(p, "checkIn") =>
         LET eventId == call'[p].eventId
             userId == call'[p].userId
             expected == CheckInExpected(eventId, userId)
             none == \A a \in attendances : ~(a.eventId = eventId /\ a.userId = userId) IN
           /\ expected # "ok" => result'[p] = expected /\ attendances' = attendances
           /\ (expected = "ok" /\ none) =>
                /\ result'[p] = "ok"
                /\ attendances' = attendances \cup
                     {[eventId |-> eventId, userId |-> userId, checkInTime |-> {now},
                       checkOutTime |-> {}, status |-> "CHECKED_IN"]}
           /\ attendances' # attendances => expected = "ok"]_vars

\* C9 witness: a CheckIn on an event that requires registration has succeeded.
C9_Witness ==
  \E p \in Procs :
    /\ pc[p] = "done" /\ call[p].op = "checkIn" /\ result[p] = "ok"
    /\ \E e \in events : e.id = call[p].eventId /\ e.registrationRequired
    /\ \E a \in attendances :
         /\ a.eventId = call[p].eventId /\ a.userId = call[p].userId
         /\ a.status = "CHECKED_IN" /\ a.checkInTime = {now}

\* C10 as stated: once the pair has checked in, every later check-in by any
\* path fails with AlreadyCheckedIn and leaves the attendance records as they
\* are.
CheckInOps == {"checkIn", "markAttendance", "checkInWithToken", "validateAndCheckIn"}

\* The event a check-in request is about: validateAndCheckIn takes it from
\* the token.
TargetEvent(c) ==
  IF c.op = "validateAndCheckIn" /\ Len(c.token) >= 2 THEN c.token[2] ELSE c.eventId

CheckedIn(eventId, userId) ==
  \E a \in attendances :
    a.eventId = eventId /\ a.userId = userId /\ a.checkInTime # {}

C10_AlwaysAlreadyCheckedIn ==
  [][\A p \in Procs : \A op \in CheckInOps :
       (Completes(p, op) /\ CheckedIn(TargetEvent(call'[p]), call'[p].userId)) =>
         /\ result'[p] = "AlreadyCheckedIn"
         /\ attendances' = attendances]_vars

\* C10 amended: once the pair has checked in, every later check-in by any path
\* fails and leaves the attendance records as they are; the error is
\* AlreadyCheckedIn when the checks the path makes before it looks the
\* attendance up pass (event active and running, a required registration for
\* CheckIn and MarkAttendance, the event's active unexpired token for the QR
\* paths).
TokenAccepted(eventId, token) ==
  \E i \in 1..Len(qrcodes) :
    /\ qrcodes[i].eventId = eventId /\ qrcodes[i].qrData = token
    /\ qrcodes[i].isActive /\ now <= qrcodes[i].expiresAt
    /\ \E e \in events :
         e.id = eventId /\ e.isActive /\ e.startDate <= now /\ now <= e.endDate

EarlierChecksPass(c) ==
  IF c.op \in {"checkIn", "markAttendance"}
  THEN CheckInExpected(c.eventId, c.userId) = "ok"
  ELSE TokenAccepted(TargetEvent(c), c.token)

C10_LaterCheckInFails ==
  [][\A p \in Procs : \A op \in CheckInOps :
       (Completes(p, op) /\ CheckedIn(TargetEvent(call'[p]), call'[p].userId)) =>
         /\ result'[p] # "ok"
         /\ attendances' = attendances
         /\ EarlierChecksPass(call'[p]) => result'[p] = "AlreadyCheckedIn"]_vars

\* C10 witness: a check-in of a pair that had checked in and out has been
\* refused with AlreadyCheckedIn.
C10_Witness ==
  \E p \in Procs :
    /\ pc[p] = "done" /\ call[p].op \in CheckInOps
    /\ result[p] = "AlreadyCheckedIn"
    /\ \E a \in attendances :
         /\ a.eventId = TargetEvent(call[p]) /\ a.userId = call[p].userId
         /\ a.status = "CHECKED_OUT"

\* C11 as stated: a CheckOut of a pair that has not checked in fails with
\* NotCheckedIn and creates no attendance record.
C11_NotCheckedIn ==
  [][\A p \in Procs :
       (Completes(p, "checkOut")
          /\ ~CheckedIn(call'[p].eventId, call'[p].userId)) =>
         /\ result'[p] = "NotCheckedIn"
         /\ attendances' = attendances]_vars

\* C11 amended: a CheckOut of a pair that has not checked in creates no
\* attendance record and fails: with AttendanceNotFound when the pair has no
\* record, with NotCheckedIn when its record has no checkInTime.
C11_CheckOutBeforeCheckIn ==
  [][\A p \in Procs :
       (Completes(p, "checkOut")
          /\ ~CheckedIn(call'[p].eventId, call'[p].userId)) =>
         /\ result'[p] =
              IF FindAttendance(call'[p].eventId, call'[p].userId) = {}
              THEN "AttendanceNotFound" ELSE "NotCheckedIn"
         /\ attendances' = attendances]_vars

\* C11 witness: a CheckOut on an existing event was refused for a user with no
\* attendance record.
C11_Witness ==
  \E p \in Procs :
    /\ pc[p] = "done" /\ call[p].op = "checkOut" /\ call[p].eventId = "e1"
    /\ result[p] = "AttendanceNotFound"
    /\ FindAttendance(call[p].eventId, call[p].userId) = {}

\* C12: once the record of a pair is CHECKED_OUT, every CheckOut of the pair
\* that returns fails with AlreadyCheckedOut, every check-in of the pair by any
\* path fails, and no step changes the record.
CheckedOut(eventId, userId) ==
  \E a \in FindAttendance(eventId, userId) : a.status = "CHECKED_OUT"

C12_CheckedOutTerminal ==
  [][\A eventId \in EventIds, userId \in Users :
       CheckedOut(eventId, userId) =>
         /\ FindAttendance(eventId, userId)' = FindAttendance(eventId, userId)
         /\ \A p \in Procs :
              /\ (Completes(p, "checkOut") /\ call'[p].eventId = eventId
                    /\ call'[p].userId = userId)
                   => result'[p] = "AlreadyCheckedOut"
              /\ \A op \in CheckInOps :
                   (Completes(p, op) /\ TargetEvent(call'[p]) = eventId
                      /\ call'[p].userId = userId)
                     => result'[p] # "ok"]_vars

\* C13 as stated: a ValidateToken that directly follows the IssueToken that
\* returned its token, for the same event, succeeds.
JustIssued(c) ==
  /\ Len(qrcodes) > 0
  /\ LET row == qrcodes[Len(qrcodes)] IN
       /\ row.qrData = c.token /\ row.eventId = c.eventId
       /\ row.isActive /\ row.qrData[3][1] = now

IssuedFor(eventId) ==
  {qrcodes[i].qrData : i \in {j \in 1..Len(qrcodes) : qrcodes[j].eventId = eventId}}

TokenOps == {"validateCheckinToken", "checkInWithToken"}

C14_ForgedTokenRejected ==
  [][\A p \in Procs :
       (call'[p].op \in TokenOps /\ call'[p].token \notin IssuedFor(call'[p].eventId)) =>
         /\ pc'[p] \in {"idle", "done"}
         /\ Completes(p, call'[p].op) =>
              /\ result'[p] \notin {"ok", "none"}
              /\ << attendances, registrations, events >>' =
                   << attendances, registrations, events >>]_vars

\* C14 witness: a check-in with a token whose signature was altered has been
\* refused while the token it was made from would have been accepted.
C14_Witness ==
  \E p \in Procs :
    /\ pc[p] = "done" /\ call[p].op = "checkInWithToken"
    /\ result[p] = "TokenNotFound"
    /\ \E t \in IssuedFor(call[p].eventId) :
         /\ call[p].token = AlterSignature(t)
         /\ "ok" \in ValidateCheckinToken(call[p].eventId, t, now)

\* C15: once IssueToken has run twice, one call after the other, for an
\* event, ValidateToken and CheckInWithToken with the first token fail with
\* TokenNotFound, the second IssueToken leaves its token as the only active
\* one, and no row but the second is active afterwards.
TwiceIssued ==
  Len(qrcodes) = 2 /\ qrcodes[1].eventId = qrcodes[2].eventId

C15_FirstTokenNotFound ==
  [][/\ TwiceIssued =>
          /\ ActiveQRCodes(qrcodes[1].eventId) \subseteq {2}
          /\ \A p \in Procs : \A op \in TokenOps :
               (Completes(p, op) /\ call'[p].token = qrcodes[1].qrData
                  /\ call'[p].eventId = qrcodes[1].eventId)
                 => result'[p] = "TokenNotFound"
     /\ \A p \in Procs : \A eventId \in EventIds :
          (Completes(p, "generateEventQR") /\ result'[p] = "ok"
             /\ call'[p].eventId = eventId /\ Len(qrcodes') = 2)
            => ActiveQRCodes(eventId)' = {2}]_vars

\* C15 witness: the first token has been refused with TokenNotFound at a time
\* at which the second is accepted.
C15_Witness ==
  \E p \in Procs :
    /\ TwiceIssued
    /\ pc[p] = "done" /\ call[p].op = "validateCheckinToken"
    /\ call[p].token = qrcodes[1].qrData /\ result[p] = "TokenNotFound"
    /\ ValidateCheckinToken(call[p].eventId, qrcodes[2].qrData, now) = {"ok"}

\* C16 as stated: when the only requests are an IssueToken and, later, a
\* ValidateToken with its token on the running active event (so that nothing but
\* the sweep can have touched the row), the validation succeeds while
\* now <= expiresAt and fails with TokenExpired once now > expiresAt.
IssuedThenValidated(p) ==
  /\ Completes(p, "validateCheckinToken")
  /\ served = 1 /\ Len(qrcodes) = 1
  /\ qrcodes[1].qrData = call'[p].token /\ qrcodes[1].eventId = call'[p].eventId
  /\ \E e \in FindEvent(call'[p].eventId) :
       e.isActive /\ e.startDate <= now /\ now <= e.endDate

C16_ExpiredWhateverTheSweep ==
  [][\A p \in Procs :
       IssuedThenValidated(p) =>
         result'[p] = IF now <= qrcodes[1].expiresAt THEN "ok" ELSE "TokenExpired"]_vars

\* C16 amended: in the same runs the validation succeeds while
\* now <= expiresAt; once now > expiresAt it fails, with TokenExpired while the
\* row is active and with TokenNotFound after the sweep has deactivated it.
C16_ExpiredOrSwept ==
  [][\A p \in Procs :
       IssuedThenValidated(p) =>
         result'[p] = IF now <= qrcodes[1].expiresAt THEN "ok"
                      ELSE IF qrcodes[1].isActive THEN "TokenExpired"
                      ELSE "TokenNotFound"]_vars

\* C16 witness: a token that expired and was swept has been refused with
\* TokenNotFound while its event was running, and no other request was sent.
C16_Witness ==
  \E p \in Procs :
    /\ pc[p] = "done" /\ call[p].op = "validateCheckinToken"
    /\ served = 2 /\ Len(qrcodes) = 1
    /\ qrcodes[1].qrData = call[p].token /\ qrcodes[1].eventId = call[p].eventId
    /\ \E e \in FindEvent(call[p].eventId) :
         e.isActive /\ e.startDate <= now /\ now <= e.endDate
    /\ now > qrcodes[1].expiresAt /\ ~qrcodes[1].isActive
    /\ result[p] = "TokenNotFound"

\* C17: a RevokeToken on an event with an active token succeeds and leaves
\* the event without an active token, changing nothing but isActive; a
\* RevokeToken on an event without an active token, as a second one in a row
\* is, fails with NoActiveToken and changes no QRCode row.
SameButIsActive(rows, rowsAfter) ==
  /\ Len(rowsAfter) = Len(rows)
  /\ \A i \in 1..Len(rows) : [rowsAfter[i] EXCEPT !.isActive = rows[i].isActive] = rows[i]

C17_Revoke ==
  [][\A p \in Procs : \A eventId \in EventIds :
       (call'[p].op = "revokeQRCode" /\ call'[p].eventId = eventId) =>
         /\ (pc[p] = "idle" /\ ActiveQRCodes(eventId) = {}) =>
              /\ pc'[p] = "done" /\ result'[p] = "NoActiveToken"
              /\ qrcodes' = qrcodes
         /\ (pc[p] = "idle" /\ ActiveQRCodes(eventId) # {}) =>
              pc'[p] = "rv_update" /\ qrcodes' = qrcodes
         /\ (pc[p] = "rv_update" /\ pc'[p] # "rv_update") =>
              /\ pc'[p] = "done" /\ result'[p] = "ok"
              /\ ActiveQRCodes(eventId)' = {}
              /\ SameButIsActive(qrcodes, qrcodes')]_vars

\* C17 witness: a RevokeToken has failed with NoActiveToken on an event whose
\* latest token has not expired, so that an earlier RevokeToken deactivated it.
C17_Witness ==
  \E p \in Procs :
    /\ pc[p] = "done" /\ call[p].op = "revokeQRCode"
    /\ result[p] = "NoActiveToken"
    /\ Len(qrcodes) > 0
    /\ LET row == qrcodes[Len(qrcodes)] IN
         row.eventId = call[p].eventId /\ ~row.isActive /\ now <= row.expiresAt

\* C18: when CheckInWithToken finds no registration on an event that requires
\* one, it is rejected with DeadlinePassed or CapacityExceeded in exactly the
\* states of (registrationDeadline, now, currentAttendees, maxAttendees) in
\* which Register is rejected with that error, and auto-registers otherwise.
\* Register's verdict is read off its own checks, the start of the event set
\* aside.
RegisterRejection(e, t) ==
  LET notStarted == [e EXCEPT !.startDate = t + 1] IN
    IF RegisterEventError({notStarted}, t) # "ok" THEN RegisterEventError({notStarted}, t)
    ELSE IF AtCapacity(e) THEN "CapacityExceeded"
    ELSE "ok"

C18_AutoRegisterAsRegister ==
  [][\A p \in Procs :
       (/\ pc[p] = "cwt_reg" /\ pc'[p] # "cwt_reg"
        /\ FindRegistration(call[p].eventId, call[p].userId) = {}) =>
         \E e \in FindEvent(call[p].eventId) :
           IF RegisterRejection(e, now) = "ok"
           THEN pc'[p] = "cwt_tx"
           ELSE pc'[p] = "done" /\ result'[p] = RegisterRejection(e, now)]_vars

\* C19: on every QR check-in path a token that is not of the form
\* event-checkin:<eventId>:<issuedAtMillis>:<hexHMAC> is rejected with
\* InvalidFormat, and a token of that form whose event id is not the event id
\* of the request is rejected with EventMismatch.
QrOps == {"validateCheckinToken", "checkInWithToken", "validateAndCheckIn"}

WellFormed(token) == Len(token) = 4 /\ token[1] = "event-checkin"

C19_FormatAndEventChecked ==
  [][\A p \in Procs :
       (pc[p] = "idle" /\ call'[p].op \in QrOps) =>
         IF ~WellFormed(call'[p].token)
         THEN pc'[p] = "done" /\ result'[p] = "InvalidFormat"
         ELSE call'[p].token[2] # call'[p].eventId =>
                pc'[p] = "done" /\ result'[p] = "EventMismatch"]_vars

\* C20: in every state there is at most one attendance record per
\* (event, user), and no step removes the record of a pair.
C20_OneAttendancePerPair ==
  [][\A eventId \in EventIds, userId \in Users :
       /\ Cardinality(FindAttendance(eventId, userId)') <= 1
       /\ FindAttendance(eventId, userId) # {} =>
            FindAttendance(eventId, userId)' # {}]_vars

\* C20 witness: two check-ins of one pair have overlapped, one has written the
\* record and the other has failed on the unique key.
C20_Witness ==
  \E p, q \in Procs :
    /\ pc[p] = "done" /\ call[p].op \in CheckInOps /\ result[p] = "ok"
    /\ pc[q] = "done" /\ call[q].op \in CheckInOps /\ result[q] = "DbError"
    /\ TargetEvent(call[p]) = TargetEvent(call[q]) /\ call[p].userId = call[q].userId
    /\ Cardinality(FindAttendance(TargetEvent(call[p]), call[p].userId)) = 1

\* C21: when createInvitation or inviteUser fails, the invitation row the call
\* created is no longer in the table when the error is returned, and no step
\* of such a call touches another invitation row: a call that fails, as one
\* whose email or SMS was not sent does, leaves the invitations as they were.
InviteOps == {"createInvitation", "inviteUser"}

OtherInvitations(rows, own) == {i \in rows : i.id \notin {x.id : x \in own}}

C21_FailedInviteLeavesNoRow ==
  [][\A p \in Procs :
       (pc'[p] # pc[p] /\ inviteCall'[p].op \in InviteOps) =>
         LET own == inviteSnap'[p].invitation IN
           /\ OtherInvitations(invitations', own) = OtherInvitations(invitations, own)
           /\ (pc'[p] = "done" /\ result'[p] # "ok") =>
                \A x \in own : FindInvitationById(x.id)' = {}]_vars

\* C21 witness: an invitation by email and phone has failed after the email
\* went out and the SMS did not; its row is gone and another's is still there.
C21_Witness ==
  \E p \in Procs :
    /\ pc[p] = "done" /\ inviteCall[p].op \in InviteOps
    /\ result[p] = "InvitationSendFailed"
    /\ inviteCall[p].email # {} /\ inviteCall[p].phone # {}
    /\ inviteSnap[p].otp # NoToken
    /\ FindInvitationById(SnapInvitation(p).id) = {}
    /\ invitations # {}

\* C22: MarkAttendance and CheckIn are one state machine: from every state of
\* (event, registration, attendance, now) each fails with the same error, the
\* one a single verdict on that state names, or each succeeds, and on success
\* each leaves the pair's record with checkInTime = now, the checkOutTime it
\* had, and status CHECKED_IN.
StaffOrSelfOps == {"checkIn", "markAttendance"}

CheckInVerdict(eventId, userId) ==
  IF CheckInExpected(eventId, userId) # "ok" THEN CheckInExpected(eventId, userId)
  ELSE IF CheckedIn(eventId, userId) THEN "AlreadyCheckedIn"
  ELSE "ok"

RecordAfterCheckIn(eventId, userId) ==
  [eventId |-> eventId, userId |-> userId, checkInTime |-> {now},
   checkOutTime |-> UNION {a.checkOutTime : a \in FindAttendance(eventId, userId)},
   status |-> "CHECKED_IN"]

C22_MarkAttendanceIsCheckIn ==
  [][\A p \in Procs : \A op \in StaffOrSelfOps :
       Completes(p, op) =>
         LET eventId == call'[p].eventId
             userId == call'[p].userId IN
           /\ result'[p] = CheckInVerdict(eventId, userId)
           /\ attendances' =
                IF CheckInVerdict(eventId, userId) = "ok"
                THEN (attendances \ FindAttendance(eventId, userId))
                       \cup {RecordAfterCheckIn(eventId, userId)}
                ELSE attendances]_vars

\* C22 witness: a MarkAttendance has succeeded for a registered user on an
\* event that requires registration, while the other user had checked in.
C22_Witness ==
  \E p \in Procs :
    /\ pc[p] = "done" /\ call[p].op = "markAttendance" /\ result[p] = "ok"
    /\ \E e \in FindEvent(call[p].eventId) : e.registrationRequired
    /\ \E a \in FindAttendance(call[p].eventId, call[p].userId) :
         a.status = "CHECKED_IN" /\ a.checkInTime = {now}
    /\ \E a \in attendances : a.userId # call[p].userId

\* C23: a run of the expiry sweep sets isActive = false on exactly the rows
\* with expiresAt < now and isActive = true and changes nothing else; a second
\* run at that time finds no such row, so two runs leave what one leaves; a
\* sweep that runs while tokens are issued deactivates no unexpired row and adds
\* no active row to any event, and the IssueToken still leaves its row active.
SweepStep == qrcodes' # qrcodes /\ pc' = pc

Swept(row, t) ==
  IF row.expiresAt < t /\ row.isActive THEN [row EXCEPT !.isActive = FALSE] ELSE row

C23_Sweep ==
  [][/\ SweepStep =>
          /\ Len(qrcodes') = Len(qrcodes)
          /\ \A i \in 1..Len(qrcodes) : qrcodes'[i] = Swept(qrcodes[i], now)
          /\ \A i \in 1..Len(qrcodes) : Swept(qrcodes'[i], now) = qrcodes'[i]
          /\ \A eventId \in EventIds : ActiveQRCodes(eventId)' \subseteq ActiveQRCodes(eventId)
          /\ << events, registrations, attendances >>' = << events, registrations, attendances >>
          /\ << call, result, secureToken >>' = << call, result, secureToken >>
     /\ \A p \in Procs :
          (Completes(p, "generateEventQR") /\ result'[p] = "ok") =>
            LET row == qrcodes'[Len(qrcodes')] IN
              row.isActive /\ row.eventId = call'[p].eventId /\ row.qrData = secureToken[p]]_vars

\* C23 witness: an IssueToken is between its updateMany, which found no row,
\* and its create; the one row there is, created since, has expired and the
\* sweep has deactivated it.
C23_Witness ==
  \E p \in Procs :
    /\ pc[p] = "gq_create" /\ secureToken[p][3][2] = 0
    /\ served = 2 /\ Len(qrcodes) = 1
    /\ ~qrcodes[1].isActive /\ qrcodes[1].expiresAt < now

\* C24: check-ins of unregistered users take no seat: a CheckIn or
\* MarkAttendance that succeeds on an event with registrationRequired = false
\* leaves the pair with its attendance record and without registration, and no
\* step of CheckIn, MarkAttendance or CheckOut changes currentAttendees or the
\* registrations.
FrameOps == {"checkIn", "markAttendance", "checkOut"}

C24_CheckInsTakeNoSeat ==
  [][\A p \in Procs :
       /\ (pc'[p] # pc[p] /\ call'[p].op \in FrameOps) =>
            registrations' = registrations /\ events' = events
       /\ \A op \in StaffOrSelfOps : \A eventId \in EventIds, userId \in Users :
            (/\ Completes(p, op) /\ result'[p] = "ok"
             /\ call'[p].eventId = eventId /\ call'[p].userId = userId
             /\ \E e \in FindEvent(eventId) : ~e.registrationRequired) =>
              /\ FindRegistration(eventId, userId)' = {}
              /\ \E a \in FindAttendance(eventId, userId)' : a.status = "CHECKED_IN"]_vars

\* C24 witness: on an event with one seat and no registration required both
\* users have checked in, one has checked out, and no seat is taken.
C24_Witness ==
  \E e \in events :
    /\ ~e.registrationRequired /\ e.maxAttendees = {1} /\ e.currentAttendees = 0
    /\ registrations = {}
    /\ \A u \in Users : FindAttendance(e.id, u) # {}
    /\ \E a \in attendances : a.status = "CHECKED_OUT"
    /\ \E p \in Procs : pc[p] = "done" /\ call[p].op = "checkIn" /\ result[p] = "ok"

\* C25: in every reachable state each event's currentAttendees is the number
\* of registrations of the event, whatever the interleaving of Register,
\* Cancel, CheckInWithToken and validateAndCheckIn, two overlapping Register or
\* Cancel calls for one pair included.
C25_AttendeesCountRegistrations ==
  \A e \in events : e.currentAttendees = Cardinality(RegistrationsOf(e.id))

\* C25 witness: two Cancel calls for one pair have overlapped; one deleted the
\* registration and the other failed on the delete.
C25_Witness ==
  \E p, q \in Procs :
    /\ pc[p] = "done" /\ call[p].op = "cancelRegistration" /\ result[p] = "ok"
    /\ pc[q] = "done" /\ call[q].op = "cancelRegistration" /\ result[q] = "DbError"
    /\ call[p].userId = call[q].userId
    /\ FindRegistration(call[p].eventId, call[p].userId) = {}

\* C26: of two check-in requests for one pair that overlap, by whatever paths,
\* each having read the attendance record before either writes, at most one
\* reports success; and the checkInTime a record holds is never replaced.
BothSucceeded(p, q) ==
  /\ p # q
  /\ pc[p] = "done" /\ call[p].op \in CheckInOps /\ result[p] = "ok"
  /\ pc[q] = "done" /\ call[q].op \in CheckInOps /\ result[q] = "ok"
  /\ TargetEvent(call[p]) = TargetEvent(call[q]) /\ call[p].userId = call[q].userId

C26_OneCheckInWins ==
  [][/\ \A p, q \in Procs : ~BothSucceeded(p, q)'
     /\ \A a \in attendances :
          a.checkInTime # {} =>
            \E b \in attendances' :
              b.eventId = a.eventId /\ b.userId = a.userId
                /\ b.checkInTime = a.checkInTime]_vars

\* C26 witness: a MarkAttendance and a CheckInWithToken for one pair have
\* overlapped, each past its lookup before either wrote; the first wrote the
\* record and the second failed on the create.
C26_Witness ==
  \E p, q \in Procs :
    /\ pc[p] = "done" /\ call[p].op = "markAttendance" /\ result[p] = "ok"
    /\ pc[q] = "done" /\ call[q].op = "checkInWithToken" /\ result[q] = "DbError"
    /\ call[p].eventId = call[q].eventId /\ call[p].userId = call[q].userId
    /\ \E a \in FindAttendance(call[p].eventId, call[p].userId) : a.checkInTime # {}

\* C27: on an event that requires registration every attendance record of a
\* pair comes with a registration of the pair, in every reachable state, also
\* when a Cancel and a CheckIn of the pair overlap as the event starts.
C27_AttendanceHasRegistration ==
  \A e \in events :
    e.registrationRequired =>
      \A a \in attendances :
        a.eventId = e.id => FindRegistration(a.eventId, a.userId) # {}

\* C28: the isActive flag of a QRCode row never goes from false back to true,
\* and a token that has been issued and has no active row (revoked, superseded
\* or swept) stays so: no later ValidateToken, CheckInWithToken or
\* validateAndCheckIn accepts it.
Deactivated(token) ==
  /\ \E i \in 1..Len(qrcodes) : qrcodes[i].qrData = token
  /\ \A i \in 1..Len(qrcodes) : qrcodes[i].qrData = token => ~qrcodes[i].isActive

C29_QrPathsAgree ==
  [][\A p \in Procs : \A eventId \in EventIds, userId \in Users :
       (call'[p].op = "validateAndCheckIn"
          /\ call'[p].eventId = eventId /\ call'[p].userId = userId) =>
         /\ pc[p] = "idle" =>
              (pc'[p] # "done" <=>
                 ValidateCheckinToken(eventId, call'[p].token, now) = {"ok"})
         /\ (Completes(p, "validateAndCheckIn") /\ result'[p] = "ok") =>
              CheckedIn(eventId, userId)']_vars

\* Worker q has created a user from the invitation that worker p has read, and
\* has yet to mark it accepted.
CreatedFromSame(q, p) ==
  /\ pc[q] = "ai_update"
  /\ SnapInvitation(q).id = SnapInvitation(p).id

\* An acceptInvitation that arrives with the token of a row marked accepted
\* fails with INVITATION_ALREADY_ACCEPTED and creates no user.
LaterAcceptFails(p) ==
  (/\ pc[p] = "idle"
   /\ inviteCall'[p].op = "acceptInvitation"
   /\ \E i \in invitations : i.token = inviteCall'[p].token /\ i.isAccepted) =>
    /\ pc'[p] = "done"
    /\ result'[p] = "InvitationAlreadyAccepted"
    /\ accounts' = accounts

\* C30: each invitation is accepted at most once and yields at most one user:
\* an acceptInvitation with the token of an accepted invitation fails with
\* INVITATION_ALREADY_ACCEPTED and creates no user, and a user is created from
\* an invitation only while none has been created from it, also when two
\* calls with the same token have both read the row before either marks it.
C30_AcceptedOnce ==
  [][\A p \in Procs :
       /\ LaterAcceptFails(p)
       /\ (pc[p] = "ai_create" /\ accounts' # accounts) =>
            /\ \A i \in FindInvitationById(SnapInvitation(p).id) : ~i.isAccepted
            /\ \A q \in Procs \ {p} : ~CreatedFromSame(q, p)]_vars

====
